---- MODULE Spec2Model ----
(***************************************************************************)
(* Ledger, allocation, netting and settlement lifecycle of the expense     *)
(* tracker server (controllers splitExpense, expenseSplit, settlement,     *)
(* group and friend).                                                      *)
(*                                                                         *)
(* Money is counted in minor units (cents): the JavaScript number 1.00 is  *)
(* the integer 100.  Percentages are counted in hundredths of a percent:   *)
(* 100% is 10000.  Arithmetic is exact and Math.round(x) is floor(x + 1/2),*)
(* except in the sums of getGroupBalances, which round as Numbers do, to a *)
(* significand of SignificandBits bits.                                    *)
(* Time is a counter of clock instants; the 24 hour grace window is scaled *)
(* to GraceWindow instants.                                                *)
(***************************************************************************)
EXTENDS Integers, Sequences, FiniteSets, TLC

(* ------------------------------ bounds --------------------------------- *)

\* largest expense / share / settlement amount a request carries (Spec)
MaxAmount == 2
\* largest expense amount tried by the allocation specification (SpecAlloc)
MaxAllocAmount == 4
\* longest customSplits list a request carries
MaxCustomSplits == 1
\* longest customSplits list tried by the allocation specification (SpecAlloc)
MaxAllocSplits == 2
\* split expenses ever created in one behaviour
MaxExpenses == 1
\* settlements ever created in one behaviour
MaxSettlements == 1
\* clock instants that may pass between two database calls of one handler
MaxDelay == 1
\* longest expenseSplitIds list of a mark-paid request
MaxMarkIds == 2
\* friend requests ever created in one behaviour (SpecFriend)
MaxFriendRequests == 2
\* longest list of unpaid splits fed to the balance accumulation (SpecNet)
MaxUnpaidSplits == 3
\* largest amount of an unpaid split fed to the balance accumulation (SpecNet)
MaxNetAmount == 3

(* ------------------------- program constants --------------------------- *)

\* 24 * 60 * 60 * 1000 ms, scaled to clock instants
GraceWindow == 2
\* bits of the significand of a JavaScript Number: 53 in the build, scaled down
SignificandBits == 2
\* Math.abs(totalCustomAmount - amount) > 0.01, in minor units
AmountTolerance == 1
\* Math.abs(totalPercentage - 100) > 0.01, in hundredths of a percent
PercentTolerance == 1
\* the 100 of "percentages sum to 100", in hundredths of a percent
HundredPercent == 10000

\* last clock instant of a behaviour: one past the window of a settlement of instant 0
MaxTime == GraceWindow + 1

Users == {"u1", "u2", "u3"}

\* the active members of the group when a behaviour of Spec starts
InitialMembers == {"u1", "u2"}

\* the user who created the group
GroupCreator == "u1"

\* the handlers that can be serving a request at the same time (SpecRace)
Procs == {"p1", "p2"}

\* database NULL of a DateTime? column
NULL == -1
\* an optional request field that is absent (undefined)
ABSENT == -1

(* ------------------------------ state ---------------------------------- *)

VARIABLES
    now,            \* the clock read by Date.now() / new Date()
    groupMembers,   \* userIds of the active GroupMember rows of the group
    friendships,    \* Friendship rows: <<initiatorId, receiverId>>
    friendRequests, \* FriendRequest rows: id, senderId, receiverId, status
    splitExpenses,  \* SplitExpense rows
    expenseSplits,  \* ExpenseSplit rows
    settlements,    \* Settlement rows
    ids,            \* ids handed out so far, per table
    res,            \* the response of the last request
    unpaidSplits,   \* SpecNet: the list of unpaid splits given to the accumulation
    balances,       \* SpecNet: the balanceArray computed from unpaidSplits
    splitGroup,     \* the SplitGroup row of the group: creatorId, isActive
    calls           \* SpecRace: the request each concurrent handler is serving

vars == <<now, groupMembers, friendships, friendRequests, splitExpenses, expenseSplits,
          settlements, ids, res, unpaidSplits, balances, splitGroup, calls>>

dbVars == <<groupMembers, friendships, friendRequests, splitExpenses, expenseSplits,
           settlements, ids>>
netVars == <<unpaidSplits, balances>>

(* ----------------------------- helpers --------------------------------- *)

Abs(x) == IF x < 0 THEN -x ELSE x

\* Math.round(p / q) for p >= 0, q > 0: halves round up
MathRound(p, q) == (2 * p + q) \div (2 * q)

\* An amount summed by the group balances is a JavaScript Number: a binary
\* floating-point value whose significand has SignificandBits bits, so a sum or
\* difference that needs more bits is rounded to the nearest value that fits,
\* ties to the even significand.  Values are counted in units of the smallest
\* amount.
RECURSIVE BitLength(_)
BitLength(x) == IF x = 0 THEN 0 ELSE 1 + BitLength(x \div 2)

RECURSIVE PowerOfTwo(_)
PowerOfTwo(n) == IF n = 0 THEN 1 ELSE 2 * PowerOfTwo(n - 1)

\* the Number nearest to the exact value x
NumberRound(x) ==
    LET magnitude == Abs(x)
        bits == BitLength(magnitude)
    IN  IF bits <= SignificandBits THEN x
        ELSE LET quantum == PowerOfTwo(bits - SignificandBits)
                 significand == magnitude \div quantum
                 rest == magnitude % quantum
                 up == 2 * rest > quantum
                       \/ (2 * rest = quantum /\ significand % 2 = 1)
                 rounded == IF up THEN (significand + 1) * quantum
                            ELSE significand * quantum
             IN  IF x < 0 THEN -rounded ELSE rounded

\* a + b and a - b on Numbers
NumberAdd(a, b) == NumberRound(a + b)

NumberSub(a, b) == NumberRound(a - b)

Range(s) == {s[i] : i \in 1..Len(s)}

RECURSIVE SumSeq(_)
SumSeq(s) == IF s = <<>> THEN 0 ELSE Head(s) + SumSeq(Tail(s))

\* sum of the amount column of a set of rows
RECURSIVE SumAmount(_)
SumAmount(rows) ==
    IF rows = {} THEN 0
    ELSE LET r == CHOOSE x \in rows : TRUE
         IN  r.amount + SumAmount(rows \ {r})

\* all sequences over S of length at most n
SeqUpTo(S, n) == UNION {[1..k -> S] : k \in 0..n}

\* a response, the ids of the rows the handler's updateMany matched, and the
\* memberSummary a getGroupSummary answers with
Response(op, status, error) ==
    [op |-> op, status |-> status, error |-> error, marked |-> {}, summary |-> <<>>,
     userNetBalances |-> <<>>, totalUnsettledAmount |-> 0]

\* the order in which findMany returns user-keyed rows
UserOrder == <<"u1", "u2", "u3">>

\* a set of users as a list
SetToSeq(S) == SelectSeq(UserOrder, LAMBDA u : u \in S)

(* ---------------------- split allocation (pure) ------------------------ *)

SplitTypes == {"Equal", "Percentage", "Amount"}

\* splitType === 'Equal': amount / activeMembers.length, rounded to 2 decimals
EqualSplits(amount, activeMembers) ==
    [i \in 1..Len(activeMembers) |->
        [userId |-> activeMembers[i],
         amount |-> MathRound(amount, Len(activeMembers))]]

\* customSplits.reduce((sum, split) => sum + split.amount, 0)
TotalCustomAmount(customSplits) ==
    SumSeq([i \in 1..Len(customSplits) |-> customSplits[i].amount])

\* customSplits.reduce((sum, split) => sum + (split.percentage || 0), 0)
TotalPercentage(customSplits) ==
    SumSeq([i \in 1..Len(customSplits) |-> customSplits[i].percentage])

\* customSplits.filter(split => !memberIds.includes(split.userId))
InvalidUsers(customSplits, activeMembers) ==
    {i \in 1..Len(customSplits) : customSplits[i].userId \notin Range(activeMembers)}

\* Math.abs(totalCustomAmount - amount) > 0.01
AmountMismatch(customSplits, amount) ==
    Abs(TotalCustomAmount(customSplits) - amount) > AmountTolerance

\* Math.abs(totalPercentage - 100) > 0.01
PercentageMismatch(customSplits) ==
    Abs(TotalPercentage(customSplits) - HundredPercent) > PercentTolerance

AmountSplits(customSplits) ==
    [i \in 1..Len(customSplits) |->
        [userId |-> customSplits[i].userId, amount |-> customSplits[i].amount]]

\* Math.round((amount * percentage / 100) * 100) / 100
PercentageSplits(amount, customSplits) ==
    [i \in 1..Len(customSplits) |->
        [userId |-> customSplits[i].userId,
         amount |-> MathRound(amount * customSplits[i].percentage, HundredPercent)]]

\* the "Calculate splits based on splitType" block of createSplitExpense:
\* the error it throws ("" when none) and the splits it computes
CalculateSplits(body, activeMembers) ==
    IF body.splitType = "Equal" THEN
        [error |-> "", splits |-> EqualSplits(body.amount, activeMembers)]
    ELSE IF body.splitType = "Amount" /\ body.hasCustomSplits THEN
        IF AmountMismatch(body.customSplits, body.amount) THEN
            [error |-> "Sum of custom split amounts must equal total expense amount",
             splits |-> <<>>]
        ELSE IF InvalidUsers(body.customSplits, activeMembers) # {} THEN
            [error |-> "Some users in custom splits are not group members",
             splits |-> <<>>]
        ELSE [error |-> "", splits |-> AmountSplits(body.customSplits)]
    ELSE IF body.splitType = "Percentage" /\ body.hasCustomSplits THEN
        IF PercentageMismatch(body.customSplits) THEN
            [error |-> "Sum of percentages must equal 100%", splits |-> <<>>]
        ELSE IF InvalidUsers(body.customSplits, activeMembers) # {} THEN
            [error |-> "Some users in custom splits are not group members",
             splits |-> <<>>]
        ELSE [error |-> "", splits |-> PercentageSplits(body.amount, body.customSplits)]
    ELSE [error |-> "Invalid split type or missing custom splits", splits |-> <<>>]

(* --------------------------- split expenses ---------------------------- *)

\* column defaults of the database schema: a split is created with no
\* settledAt, a settlement with the time of its insert as settledAt
DefaultSplitSettledAt == NULL
DefaultSettlementSettledAt(insertTime) == insertTime

\* CreateSplitExpenseSchema: amount: z.number().min(0.01)
CreateSplitExpenseValid(body) == body.amount >= 1

\* tx.expenseSplit.createMany: one row per computed split
NewExpenseSplits(expenseId, splits, caller) ==
    {[id |-> <<expenseId, i>>,
      splitExpenseId |-> expenseId,
      userId |-> splits[i].userId,
      amount |-> splits[i].amount,
      isPaid |-> (splits[i].userId = caller),
      settledAt |-> DefaultSplitSettledAt] : i \in 1..Len(splits)}

\* POST /api/v1/split-expenses
createSplitExpense(caller, body) ==
    LET op == "createSplitExpense"
        calc == CalculateSplits(body, SetToSeq(groupMembers))
        expenseId == ids.splitExpense + 1
    IN
    /\ UNCHANGED <<now, groupMembers, friendships, friendRequests, settlements, netVars, splitGroup, calls>>
    /\ IF ~CreateSplitExpenseValid(body) THEN
           /\ res' = Response(op, 400, "Validation failed")
           /\ UNCHANGED <<splitExpenses, expenseSplits, ids>>
       ELSE IF caller \notin groupMembers THEN
           /\ res' = Response(op, 404, "Group not found or you're not a member")
           /\ UNCHANGED <<splitExpenses, expenseSplits, ids>>
       ELSE IF calc.error # "" THEN
           /\ res' = Response(op, 400, calc.error)
           /\ UNCHANGED <<splitExpenses, expenseSplits, ids>>
       ELSE
           /\ splitExpenses' = splitExpenses \cup
                  {[id |-> expenseId, paidById |-> caller, amount |-> body.amount,
                    splitType |-> body.splitType]}
           /\ expenseSplits' = expenseSplits \cup
                  NewExpenseSplits(expenseId, calc.splits, caller)
           /\ ids' = [ids EXCEPT !.splitExpense = expenseId]
           /\ res' = Response(op, 201, "")

\* ids a split of the ledger can have: <<expense id, position in createMany>>
SplitIds ==
    (1..MaxExpenses) \X
    (1..(IF MaxCustomSplits > Cardinality(InitialMembers)
         THEN MaxCustomSplits ELSE Cardinality(InitialMembers)))

\* split.splitExpense.paidById
PayerOf(split) ==
    (CHOOSE e \in splitExpenses : e.id = split.splitExpenseId).paidById

\* where: { OR: [ { userId }, { splitExpense: { paidById: userId } } ] }
OwnOrPayer(split, caller) ==
    \/ split.userId = caller
    \/ PayerOf(split) = caller

\* PUT /api/v1/split-expenses/:expenseId
updateSplitExpense(caller, expenseId, body) ==
    LET op == "updateSplitExpense"
        found == {e \in splitExpenses : e.id = expenseId /\ e.paidById = caller}
        paidSplits == {sp \in expenseSplits :
                          sp.splitExpenseId = expenseId /\ sp.isPaid /\ sp.userId # caller}
    IN
    /\ UNCHANGED <<now, groupMembers, friendships, friendRequests, expenseSplits, settlements, ids, netVars, splitGroup, calls>>
    /\ IF body.amount # ABSENT /\ body.amount < 1 THEN
           /\ res' = Response(op, 400, "Validation failed")
           /\ UNCHANGED splitExpenses
       ELSE IF found = {} THEN
           /\ res' = Response(op, 404, "Split expense not found or you don't have permission to update it")
           /\ UNCHANGED splitExpenses
       ELSE IF paidSplits # {} THEN
           /\ res' = Response(op, 400, "Cannot update expense after payments have been made")
           /\ UNCHANGED splitExpenses
       ELSE
           /\ splitExpenses' =
                  {IF e.id = expenseId
                   THEN [e EXCEPT !.amount = IF body.amount = ABSENT THEN @ ELSE body.amount,
                                  !.splitType = IF body.splitType = "absent" THEN @
                                                ELSE body.splitType]
                   ELSE e : e \in splitExpenses}
           /\ res' = Response(op, 200, "")

\* the rows an onDelete cascade of the schema removes with the expense
CascadeSplits(expenseId) == {sp \in expenseSplits : sp.splitExpenseId = expenseId}

\* a plausible slip: === for !==, only the payer's own paid split counts
PaidSplitsOfCaller(expenseId, caller) ==
    {sp \in expenseSplits : sp.splitExpenseId = expenseId /\ sp.isPaid /\ sp.userId = caller}

\* splitExpense.expenseSplits.filter(split => split.isPaid && split.userId !== req.userId)
PaidSplits(expenseId, caller) ==
    {sp \in expenseSplits : sp.splitExpenseId = expenseId /\ sp.isPaid /\ sp.userId # caller}

\* DELETE /api/v1/split-expenses/:expenseId; settlements linked to the expense
\* are left as they are
deleteSplitExpense(caller, expenseId) ==
    LET op == "deleteSplitExpense"
        found == {e \in splitExpenses : e.id = expenseId /\ e.paidById = caller}
    IN
    /\ UNCHANGED <<now, groupMembers, friendships, friendRequests, settlements, ids, netVars, splitGroup, calls>>
    /\ IF found = {} THEN
           /\ res' = Response(op, 404, "Split expense not found or you don't have permission to delete it")
           /\ UNCHANGED <<splitExpenses, expenseSplits>>
       ELSE IF PaidSplits(expenseId, caller) # {} THEN
           /\ res' = Response(op, 400, "Cannot delete expense after payments have been made")
           /\ UNCHANGED <<splitExpenses, expenseSplits>>
       ELSE
           /\ splitExpenses' = splitExpenses \ found
           /\ expenseSplits' = expenseSplits \ CascadeSplits(expenseId)
           /\ res' = Response(op, 200, "")

(* --------------------------- expense splits ---------------------------- *)

\* PUT /api/v1/expense-splits/:splitId
updateExpenseSplit(caller, splitId, body) ==
    LET op == "updateExpenseSplit"
        found == {sp \in expenseSplits : sp.id = splitId /\ OwnOrPayer(sp, caller)}
    IN
    /\ UNCHANGED <<now, groupMembers, friendships, friendRequests, splitExpenses, settlements, ids, netVars, splitGroup, calls>>
    /\ IF body.amount # ABSENT /\ body.amount < 0 THEN
           /\ res' = Response(op, 400, "Validation failed")
           /\ UNCHANGED expenseSplits
       ELSE IF found = {} THEN
           /\ res' = Response(op, 404, "Expense split not found or you don't have permission to update it")
           /\ UNCHANGED expenseSplits
       ELSE IF body.amount # ABSENT /\ \E sp \in found : PayerOf(sp) # caller THEN
           /\ res' = Response(op, 403, "Only the payer can update split amounts")
           /\ UNCHANGED expenseSplits
       ELSE
           /\ expenseSplits' =
                  {IF sp.id = splitId
                   THEN [sp EXCEPT !.isPaid = body.isPaid,
                                   !.settledAt = IF body.isPaid THEN now ELSE NULL,
                                   !.amount = IF body.amount = ABSENT THEN @ ELSE body.amount]
                   ELSE sp : sp \in expenseSplits}
           /\ res' = Response(op, 200, "")

\* POST /api/v1/expense-splits/mark-paid
markExpenseSplitsPaid(caller, expenseSplitIds) ==
    LET op == "markExpenseSplitsPaid"
        found == {sp \in expenseSplits :
                     sp.id \in Range(expenseSplitIds) /\ OwnOrPayer(sp, caller)}
    IN
    /\ UNCHANGED <<now, groupMembers, friendships, friendRequests, splitExpenses, settlements, ids, netVars, splitGroup, calls>>
    /\ IF Len(expenseSplitIds) < 1 THEN
           /\ res' = Response(op, 400, "Validation failed")
           /\ UNCHANGED expenseSplits
       ELSE IF Cardinality(found) # Len(expenseSplitIds) THEN
           /\ res' = Response(op, 404, "Some expense splits not found or you don't have permission")
           /\ UNCHANGED expenseSplits
       ELSE
           /\ expenseSplits' =
                  {IF sp.id \in Range(expenseSplitIds)
                   THEN [sp EXCEPT !.isPaid = TRUE, !.settledAt = now]
                   ELSE sp : sp \in expenseSplits}
           /\ res' = [Response(op, 200, "") EXCEPT
                         !.marked = {sp.id : sp \in {x \in expenseSplits :
                                                        x.id \in Range(expenseSplitIds)}}]

\* POST /api/v1/expense-splits/:splitId/mark-unpaid
markExpenseSplitUnpaid(caller, splitId) ==
    LET op == "markExpenseSplitUnpaid"
        found == {sp \in expenseSplits : sp.id = splitId /\ OwnOrPayer(sp, caller)}
    IN
    /\ UNCHANGED <<now, groupMembers, friendships, friendRequests, splitExpenses, settlements, ids, netVars, splitGroup, calls>>
    /\ IF found = {} THEN
           /\ res' = Response(op, 404, "Expense split not found or you don't have permission")
           /\ UNCHANGED expenseSplits
       ELSE
           /\ expenseSplits' =
                  {IF sp.id = splitId
                   THEN [sp EXCEPT !.isPaid = FALSE, !.settledAt = NULL]
                   ELSE sp : sp \in expenseSplits}
           /\ res' = Response(op, 200, "")

(* ----------------------------- settlements ----------------------------- *)

\* db.user.findUnique: the users that exist
UserExists(userId) == userId \in Users

\* db.friendship.findFirst, in either direction
AreFriends(a, b) == <<a, b>> \in friendships \/ <<b, a>> \in friendships

\* db.splitExpense.findFirst of createSettlement: the expense, if one of the
\* two users paid it or has a split on it
AccessibleExpense(expenseId, caller, toUserId) ==
    {e \in splitExpenses :
        /\ e.id = expenseId
        /\ \/ e.paidById = caller
           \/ e.paidById = toUserId
           \/ \E sp \in expenseSplits :
                 sp.splitExpenseId = e.id /\ sp.userId \in {caller, toUserId}}

\* splitExpense.expenseSplits.find(split => split.userId === req.userId):
\* the caller's splits on the expense; find takes the first of them
UserSplits(expenseId, caller) ==
    {sp \in expenseSplits : sp.splitExpenseId = expenseId /\ sp.userId = caller}

UserSplit(expenseId, caller) ==
    CHOOSE sp \in UserSplits(expenseId, caller) :
        \A other \in UserSplits(expenseId, caller) : sp.id[2] <= other.id[2]

\* userSplit && !userSplit.isPaid && userSplit.amount < amount
ExceedsOwed(expenseId, caller, amount) ==
    /\ UserSplits(expenseId, caller) # {}
    /\ ~UserSplit(expenseId, caller).isPaid
    /\ UserSplit(expenseId, caller).amount < amount

\* the where clause of the updateMany of createSettlement
CoveredSplits(expenseId, caller, amount) ==
    {sp \in expenseSplits :
        /\ sp.splitExpenseId = expenseId
        /\ sp.userId = caller
        /\ sp.amount <= amount
        /\ ~sp.isPaid}

\* POST /api/v1/settlements; `delay` instants pass between the insert of the
\* settlement (its settledAt is the insert time) and the new Date() of updateMany
createSettlement(caller, body, delay) ==
    LET op == "createSettlement"
        linked == body.splitExpenseId # ABSENT
        covered == CoveredSplits(body.splitExpenseId, caller, body.amount)
        settlementId == ids.settlement + 1
    IN
    /\ UNCHANGED <<groupMembers, friendships, friendRequests, splitExpenses, netVars, splitGroup, calls>>
    /\ IF body.amount < 1 THEN
           /\ res' = Response(op, 400, "Validation failed")
           /\ UNCHANGED <<now, settlements, expenseSplits, ids>>
       ELSE IF ~UserExists(body.toUserId) THEN
           /\ res' = Response(op, 404, "Recipient user not found")
           /\ UNCHANGED <<now, settlements, expenseSplits, ids>>
       ELSE IF body.toUserId = caller THEN
           /\ res' = Response(op, 400, "Cannot create settlement with yourself")
           /\ UNCHANGED <<now, settlements, expenseSplits, ids>>
       ELSE IF ~AreFriends(caller, body.toUserId) THEN
           /\ res' = Response(op, 400, "You can only settle with friends")
           /\ UNCHANGED <<now, settlements, expenseSplits, ids>>
       ELSE IF linked /\ AccessibleExpense(body.splitExpenseId, caller, body.toUserId) = {} THEN
           /\ res' = Response(op, 404, "Split expense not found or you don't have access")
           /\ UNCHANGED <<now, settlements, expenseSplits, ids>>
       ELSE IF linked /\ ExceedsOwed(body.splitExpenseId, caller, body.amount) THEN
           /\ res' = Response(op, 400, "Settlement amount cannot exceed what you owe")
           /\ UNCHANGED <<now, settlements, expenseSplits, ids>>
       ELSE
           /\ settlements' = settlements \cup
                  {[id |-> settlementId, fromUserId |-> caller, toUserId |-> body.toUserId,
                    amount |-> body.amount, splitExpenseId |-> body.splitExpenseId,
                    settledAt |-> DefaultSettlementSettledAt(now)]}
           /\ ids' = [ids EXCEPT !.settlement = settlementId]
           /\ now' = now + delay
           /\ IF linked
              THEN /\ expenseSplits' =
                          {IF sp \in covered
                           THEN [sp EXCEPT !.isPaid = TRUE, !.settledAt = now + delay]
                           ELSE sp : sp \in expenseSplits}
                   /\ res' = [Response(op, 201, "") EXCEPT !.marked = {sp.id : sp \in covered}]
              ELSE /\ UNCHANGED expenseSplits
                   /\ res' = Response(op, 201, "")

\* a plausible slip: the boundary instant counts as expired
GraceExpiredAtWindow(settledAt, clock) == settledAt <= clock - GraceWindow

\* settlement.settledAt < new Date(Date.now() - 24 * 60 * 60 * 1000)
GraceExpired(settledAt, clock) == settledAt < clock - GraceWindow

\* a plausible slip: either party of the settlement may change it
FindSettlementOfParty(settlementId, caller) ==
    {st \in settlements : st.id = settlementId /\ caller \in {st.fromUserId, st.toUserId}}

\* db.settlement.findFirst({ where: { id: settlementId, fromUserId: req.userId } })
FindSettlement(settlementId, caller) ==
    {st \in settlements : st.id = settlementId /\ st.fromUserId = caller}

\* PUT /api/v1/settlements/:settlementId
updateSettlement(caller, settlementId, body) ==
    LET op == "updateSettlement"
        found == FindSettlement(settlementId, caller)
    IN
    /\ UNCHANGED <<now, groupMembers, friendships, friendRequests, splitExpenses, expenseSplits, ids, netVars, splitGroup, calls>>
    /\ IF body.amount # ABSENT /\ body.amount < 1 THEN
           /\ res' = Response(op, 400, "Validation failed")
           /\ UNCHANGED settlements
       ELSE IF found = {} THEN
           /\ res' = Response(op, 404, "Settlement not found or you don't have permission to update it")
           /\ UNCHANGED settlements
       ELSE IF \E st \in found : GraceExpired(st.settledAt, now) THEN
           /\ res' = Response(op, 400, "Cannot update settlement after 24 hours")
           /\ UNCHANGED settlements
       ELSE
           /\ settlements' =
                  {IF st.id = settlementId
                   THEN [st EXCEPT !.amount = IF body.amount = ABSENT THEN @ ELSE body.amount]
                   ELSE st : st \in settlements}
           /\ res' = Response(op, 200, "")

\* the where clause of the updateMany of deleteSettlement
ReversedSplits(settlement, caller) ==
    {sp \in expenseSplits :
        /\ sp.splitExpenseId = settlement.splitExpenseId
        /\ sp.userId = caller
        /\ sp.settledAt = settlement.settledAt}

\* DELETE /api/v1/settlements/:settlementId
deleteSettlement(caller, settlementId) ==
    LET op == "deleteSettlement"
        found == FindSettlement(settlementId, caller)
    IN
    /\ UNCHANGED <<now, groupMembers, friendships, friendRequests, splitExpenses, ids, netVars, splitGroup, calls>>
    /\ IF found = {} THEN
           /\ res' = Response(op, 404, "Settlement not found or you don't have permission to delete it")
           /\ UNCHANGED <<settlements, expenseSplits>>
       ELSE IF \E st \in found : GraceExpired(st.settledAt, now) THEN
           /\ res' = Response(op, 400, "Cannot delete settlement after 24 hours")
           /\ UNCHANGED <<settlements, expenseSplits>>
       ELSE
           LET settlement == CHOOSE st \in found : TRUE
               reversed == IF settlement.splitExpenseId # ABSENT
                           THEN ReversedSplits(settlement, caller) ELSE {}
           IN
           /\ expenseSplits' =
                  {IF sp \in reversed
                   THEN [sp EXCEPT !.isPaid = FALSE, !.settledAt = NULL]
                   ELSE sp : sp \in expenseSplits}
           /\ settlements' = settlements \ found
           /\ res' = [Response(op, 200, "") EXCEPT !.marked = {sp.id : sp \in reversed}]

\* time passes between two requests
Tick ==
    /\ now < MaxTime
    /\ now' = now + 1
    /\ UNCHANGED <<dbVars, res, netVars, splitGroup, calls>>

(* ------------------------------- groups -------------------------------- *)

\* a plausible slip: only the caller's own unpaid splits are looked up
UnsettledOfCaller(caller) == {sp \in expenseSplits : ~sp.isPaid /\ sp.userId = caller}

\* db.expenseSplit.findMany({ where: { splitExpense: { groupId }, isPaid: false } })
\* of deleteGroup; every expense of the model belongs to the one group
UnsettledExpenses(caller) == {sp \in expenseSplits : ~sp.isPaid}

\* DELETE /api/v1/groups/:groupId
deleteGroup(caller) ==
    LET op == "deleteGroup" IN
    /\ UNCHANGED <<now, groupMembers, friendships, friendRequests, splitExpenses, expenseSplits,
                   settlements, ids, netVars, calls>>
    /\ IF ~(splitGroup.creatorId = caller /\ splitGroup.isActive) THEN
           /\ res' = Response(op, 404, "Group not found or you don't have permission to delete it")
           /\ UNCHANGED splitGroup
       ELSE IF UnsettledExpenses(caller) # {} THEN
           /\ res' = Response(op, 400, "Cannot delete group with unsettled expenses. Please settle all expenses first.")
           /\ UNCHANGED splitGroup
       ELSE
           /\ splitGroup' = [splitGroup EXCEPT !.isActive = FALSE]
           /\ res' = Response(op, 200, "")

\* db.expenseSplit.findMany({ where: { userId, splitExpense: { groupId }, isPaid: false } })
\* of removeGroupMember
UnsettledOfMember(userId) == {sp \in expenseSplits : ~sp.isPaid /\ sp.userId = userId}

\* DELETE /api/v1/groups/:groupId/members/:userId
removeGroupMember(caller, userId) ==
    LET op == "removeGroupMember" IN
    /\ UNCHANGED <<now, friendships, friendRequests, splitExpenses, expenseSplits, settlements, ids,
                   netVars, splitGroup, calls>>
    /\ IF ~splitGroup.isActive THEN
           /\ res' = Response(op, 404, "Group not found")
           /\ UNCHANGED groupMembers
       ELSE IF splitGroup.creatorId # caller /\ userId # caller THEN
           /\ res' = Response(op, 403, "You can only remove yourself or if you're the group creator")
           /\ UNCHANGED groupMembers
       ELSE IF userId = splitGroup.creatorId THEN
           /\ res' = Response(op, 400, "Group creator cannot be removed from the group")
           /\ UNCHANGED groupMembers
       ELSE IF UnsettledOfMember(userId) # {} THEN
           /\ res' = Response(op, 400, "Cannot remove user with unsettled expenses. Please settle all expenses first.")
           /\ UNCHANGED groupMembers
       ELSE
           /\ groupMembers' = groupMembers \ {userId}
           /\ res' = Response(op, 200, "")

(* ------------------------------ friends -------------------------------- *)

\* the status of a FriendRequest row that db.friendRequest.create leaves unset
DefaultRequestStatus == "Pending"

\* db.friendRequest.findFirst({ where: { OR: [{ senderId, receiverId }, reversed] } })
RequestsBetween(a, b) ==
    {r \in friendRequests :
        \/ r.senderId = a /\ r.receiverId = b
        \/ r.senderId = b /\ r.receiverId = a}

\* POST /api/v1/friends/requests; `userId` is the user the username names
sendFriendRequest(caller, userId) ==
    LET op == "sendFriendRequest"
        requestId == ids.friendRequest + 1
    IN
    /\ UNCHANGED <<now, groupMembers, friendships, splitExpenses, expenseSplits, settlements,
                   netVars, splitGroup, calls>>
    /\ IF ~UserExists(userId) THEN
           /\ res' = Response(op, 404, "User not found")
           /\ UNCHANGED <<friendRequests, ids>>
       ELSE IF caller = userId THEN
           /\ res' = Response(op, 400, "You cannot send a friend request to yourself")
           /\ UNCHANGED <<friendRequests, ids>>
       ELSE IF AreFriends(caller, userId) THEN
           /\ res' = Response(op, 400, "Friendship already exists")
           /\ UNCHANGED <<friendRequests, ids>>
       ELSE IF RequestsBetween(caller, userId) # {} THEN
           /\ res' = Response(op, 400, "Friend request already exists")
           /\ UNCHANGED <<friendRequests, ids>>
       ELSE
           /\ friendRequests' = friendRequests \cup
                  {[id |-> requestId, senderId |-> caller, receiverId |-> userId,
                    status |-> DefaultRequestStatus]}
           /\ ids' = [ids EXCEPT !.friendRequest = requestId]
           /\ res' = Response(op, 201, "")

\* DELETE /api/v1/friends/requests/:requestId
removeFriendRequest(caller, requestId) ==
    LET op == "removeFriendRequest"
        found == {r \in friendRequests : r.id = requestId /\ r.senderId = caller}
    IN
    /\ UNCHANGED <<now, groupMembers, friendships, splitExpenses, expenseSplits, settlements,
                   ids, netVars, splitGroup, calls>>
    /\ IF found = {} THEN
           /\ res' = Response(op, 404, "No such friend request exists")
           /\ UNCHANGED friendRequests
       ELSE
           /\ friendRequests' = {r \in friendRequests : r.id # requestId}
           /\ res' = Response(op, 200, "")

\* db.friendRequest.findFirst({ where: { id: requestId, receiverId: req.userId } })
ReceivedRequest(requestId, caller) ==
    {r \in friendRequests : r.id = requestId /\ r.receiverId = caller}

\* PUT /api/v1/friends/requests/:requestId/accept
acceptFriendRequest(caller, requestId) ==
    LET op == "acceptFriendRequest"
        found == ReceivedRequest(requestId, caller)
    IN
    /\ UNCHANGED <<now, groupMembers, splitExpenses, expenseSplits, settlements, ids,
                   netVars, splitGroup, calls>>
    /\ IF found = {} THEN
           /\ res' = Response(op, 404, "Request not found")
           /\ UNCHANGED <<friendRequests, friendships>>
       ELSE
           /\ friendRequests' =
                  {IF r.id = requestId THEN [r EXCEPT !.status = "Accepted"] ELSE r :
                      r \in friendRequests}
           /\ friendships' = friendships \cup {<<r.senderId, r.receiverId>> : r \in found}
           /\ res' = Response(op, 200, "")

\* PUT /api/v1/friends/requests/:requestId/reject
rejectFriendRequest(caller, requestId) ==
    LET op == "rejectFriendRequest"
        found == ReceivedRequest(requestId, caller)
    IN
    /\ UNCHANGED <<now, groupMembers, friendships, splitExpenses, expenseSplits, settlements,
                   ids, netVars, splitGroup, calls>>
    /\ IF found = {} THEN
           /\ res' = Response(op, 404, "Request not found")
           /\ UNCHANGED friendRequests
       ELSE
           /\ friendRequests' =
                  {IF r.id = requestId THEN [r EXCEPT !.status = "Rejected"] ELSE r :
                      r \in friendRequests}
           /\ res' = Response(op, 200, "")

\* DELETE /api/v1/friends/:friendId; findFirst takes one of the matching rows
removeFriend(caller, friendId) ==
    LET op == "removeFriend"
        found == {f \in friendships : f = <<caller, friendId>> \/ f = <<friendId, caller>>}
    IN
    /\ UNCHANGED <<now, groupMembers, friendRequests, splitExpenses, expenseSplits,
                   settlements, ids, netVars, splitGroup, calls>>
    /\ IF found = {} THEN
           /\ res' = Response(op, 404, "Friendship doesn't exist")
           /\ UNCHANGED friendships
       ELSE
           /\ \E friendship \in found : friendships' = friendships \ {friendship}
           /\ res' = Response(op, 200, "")

(* ------------------------- initial states ------------------------------ *)

NoResponse == Response("none", 0, "")

\* a handler that serves no request
NoCall == [op |-> "none", pc |-> "idle", caller |-> "", body |-> <<>>,
           saw |-> {}, settlementId |-> 0, status |-> 0]

\* a group of u1 and u2; u1 is a friend of u2 and of u3; no expense yet
Init ==
    /\ now = 0
    /\ groupMembers = InitialMembers
    /\ friendships = {<<"u1", "u2">>, <<"u3", "u1">>}
    /\ friendRequests = {}
    /\ splitExpenses = {}
    /\ expenseSplits = {}
    /\ settlements = {}
    /\ ids = [splitExpense |-> 0, settlement |-> 0, friendRequest |-> 0]
    /\ res = NoResponse
    /\ unpaidSplits = <<>>
    /\ balances = <<>>
    /\ splitGroup = [creatorId |-> GroupCreator, isActive |-> TRUE]
    /\ calls = [p \in Procs |-> NoCall]

(* --------------------------- request bodies ---------------------------- *)

CustomSplitEntries == [userId : Users, amount : 0..MaxAmount, percentage : {0}]

\* Equal, or Amount with a list of custom splits; an amount of 0 is malformed
CreateSplitExpenseBodies ==
    [amount : 0..MaxAmount, splitType : {"Equal"},
     hasCustomSplits : {FALSE}, customSplits : {<<>>}]
    \cup
    [amount : 0..MaxAmount, splitType : {"Amount"},
     hasCustomSplits : {TRUE}, customSplits : SeqUpTo(CustomSplitEntries, MaxCustomSplits)]

UpdateSplitExpenseBodies ==
    [amount : {ABSENT} \cup (0..MaxAmount), splitType : {"absent"}]

UpdateExpenseSplitBodies ==
    [isPaid : BOOLEAN, amount : {ABSENT} \cup (0..MaxAmount)]

\* a recipient id that names no user
NoUser == "nobody"

CreateSettlementBodies ==
    [toUserId : Users \cup {NoUser}, amount : 0..MaxAmount,
     splitExpenseId : {ABSENT} \cup (1..MaxExpenses)]

UpdateSettlementBodies == [amount : {ABSENT} \cup (0..MaxAmount)]

CreateSplitExpenseRequest ==
    /\ ids.splitExpense < MaxExpenses
    /\ \E caller \in Users, body \in CreateSplitExpenseBodies :
           createSplitExpense(caller, body)

MarkExpenseSplitsPaidRequest ==
    \E caller \in Users, expenseSplitIds \in SeqUpTo(SplitIds, MaxMarkIds) :
        markExpenseSplitsPaid(caller, expenseSplitIds)

(* ------------- Spec: settlements over a ledger of expenses ------------- *)

Next ==
    \/ Tick
    \/ CreateSplitExpenseRequest
    \/ MarkExpenseSplitsPaidRequest
    \/ /\ ids.settlement < MaxSettlements
       /\ \E caller \in Users, body \in CreateSettlementBodies, delay \in 0..MaxDelay :
              /\ now + delay <= MaxTime
              /\ createSettlement(caller, body, delay)
    \/ \E caller \in Users, settlementId \in 1..MaxSettlements, body \in UpdateSettlementBodies :
           updateSettlement(caller, settlementId, body)
    \/ \E caller \in Users, settlementId \in 1..MaxSettlements :
           deleteSettlement(caller, settlementId)

Spec == Init /\ [][Next]_vars

(* ------------- SpecLedger: expenses and their splits ------------------- *)

NextLedger ==
    \/ Tick
    \/ CreateSplitExpenseRequest
    \/ MarkExpenseSplitsPaidRequest
    \/ \E caller \in Users, expenseId \in 1..MaxExpenses, body \in UpdateSplitExpenseBodies :
           updateSplitExpense(caller, expenseId, body)
    \/ \E caller \in Users, splitId \in SplitIds, body \in UpdateExpenseSplitBodies :
           updateExpenseSplit(caller, splitId, body)
    \/ \E caller \in Users, splitId \in SplitIds :
           markExpenseSplitUnpaid(caller, splitId)
    \/ \E caller \in Users, expenseId \in 1..MaxExpenses :
           deleteSplitExpense(caller, expenseId)

SpecLedger == Init /\ [][NextLedger]_vars

(* ---------------- SpecAlloc: the allocation of one expense ------------- *)

\* percentages a custom split carries: 0, 33.33, 33.34, 49.99, 50 and 100
AllocPercentages == {0, 3333, 3334, 4999, 5000, HundredPercent}

\* amounts of the requests: none, 0.01 .. and the 100.00 of the documentation
AllocAmounts == (0..MaxAllocAmount) \cup {100 * 100}

AllocAmountEntries ==
    [userId : Users, amount : 0..MaxAllocAmount, percentage : {0}]

AllocPercentageEntries ==
    [userId : Users, amount : {0}, percentage : AllocPercentages]

AllocBodies ==
    [amount : AllocAmounts, splitType : SplitTypes,
     hasCustomSplits : {FALSE}, customSplits : {<<>>}]
    \cup
    [amount : AllocAmounts, splitType : {"Amount"},
     hasCustomSplits : {TRUE}, customSplits : SeqUpTo(AllocAmountEntries, MaxAllocSplits)]
    \cup
    [amount : AllocAmounts, splitType : {"Percentage"},
     hasCustomSplits : {TRUE}, customSplits : SeqUpTo(AllocPercentageEntries, MaxAllocSplits)]

\* groups of one, two and three active members
InitAlloc ==
    /\ now = 0
    /\ groupMembers \in {{"u1"}, {"u1", "u2"}, Users}
    /\ friendships = {}
    /\ friendRequests = {}
    /\ splitExpenses = {}
    /\ expenseSplits = {}
    /\ settlements = {}
    /\ ids = [splitExpense |-> 0, settlement |-> 0, friendRequest |-> 0]
    /\ res = NoResponse
    /\ unpaidSplits = <<>>
    /\ balances = <<>>
    /\ splitGroup = [creatorId |-> GroupCreator, isActive |-> TRUE]
    /\ calls = [p \in Procs |-> NoCall]

\* the first createSplitExpense on an empty ledger
NextAlloc ==
    /\ splitExpenses = {}
    /\ \E caller \in Users, body \in AllocBodies : createSplitExpense(caller, body)

SpecAlloc == InitAlloc /\ [][NextAlloc]_vars

SplitsOf(expenseId) == {s \in expenseSplits : s.splitExpenseId = expenseId}

\* C1: under the Equal policy the shares of a created expense sum to its amount
C1_EqualSharesSumToAmount ==
    \A e \in splitExpenses :
        e.splitType = "Equal" => SumAmount(SplitsOf(e.id)) = e.amount

\* C2: under the Percentage policy the shares of a created expense sum to its amount
C2_PercentageSharesSumToAmount ==
    \A e \in splitExpenses :
        e.splitType = "Percentage" => SumAmount(SplitsOf(e.id)) = e.amount

\* the custom totals of a request differ from what they must equal
CustomTotalsDiffer(body) ==
    /\ body.hasCustomSplits
    /\ \/ body.splitType = "Amount"
          /\ TotalCustomAmount(body.customSplits) # body.amount
       \/ body.splitType = "Percentage"
          /\ TotalPercentage(body.customSplits) # HundredPercent

\* C3: a well-formed request of a group member whose custom amounts differ from
\* the expense amount, or whose percentages differ from 100, by any nonzero
\* amount fails with a validation error and creates no expense and no share
C3_AnyMismatchRejected ==
    [][\A caller \in groupMembers, body \in AllocBodies :
          (/\ createSplitExpense(caller, body)
           /\ CreateSplitExpenseValid(body)
           /\ CustomTotalsDiffer(body))
              => (res'.status = 400 /\ UNCHANGED <<splitExpenses, expenseSplits>>)]_vars

(* ------------- group balances: the accumulation (pure) ----------------- *)

\* The Map `balances` is a list of [from, to, amount] in insertion order; its
\* key `${from}-${to}` is the pair (from, to).

BalanceHas(bal, from, to) == \E i \in 1..Len(bal) : bal[i].from = from /\ bal[i].to = to

BalanceIndex(bal, from, to) == CHOOSE i \in 1..Len(bal) : bal[i].from = from /\ bal[i].to = to

BalanceGet(bal, from, to) == bal[BalanceIndex(bal, from, to)]

\* Map.delete(key)
BalanceDelete(bal, from, to) == SelectSeq(bal, LAMBDA b : ~(b.from = from /\ b.to = to))

\* Map.set(key, value): in place for a key the map has, at the end otherwise
BalanceSet(bal, from, to, amount) ==
    IF BalanceHas(bal, from, to)
    THEN [bal EXCEPT ![BalanceIndex(bal, from, to)].amount = amount]
    ELSE Append(bal, [from |-> from, to |-> to, amount |-> amount])

\* a plausible slip: the flip keeps the entry of the reverse key
ApplySplitKeepReverse(bal, split) ==
    LET debtor == split.userId
        creditor == split.paidById
    IN
    IF debtor = creditor THEN bal
    ELSE IF BalanceHas(bal, creditor, debtor) THEN
        LET newAmount == NumberSub(BalanceGet(bal, creditor, debtor).amount, split.amount) IN
        IF newAmount > 0 THEN BalanceSet(bal, creditor, debtor, newAmount)
        ELSE IF newAmount < 0 THEN BalanceSet(bal, debtor, creditor, Abs(newAmount))
        ELSE BalanceDelete(bal, creditor, debtor)
    ELSE IF BalanceHas(bal, debtor, creditor) THEN
        BalanceSet(bal, debtor, creditor,
                   NumberAdd(BalanceGet(bal, debtor, creditor).amount, split.amount))
    ELSE BalanceSet(bal, debtor, creditor, split.amount)

\* one pass of expenseSplits.forEach(split => ...) in getGroupBalances
ApplySplit(bal, split) ==
    LET debtor == split.userId
        creditor == split.paidById
    IN
    IF debtor = creditor THEN bal
    ELSE IF BalanceHas(bal, creditor, debtor) THEN
        LET newAmount == NumberSub(BalanceGet(bal, creditor, debtor).amount, split.amount) IN
        IF newAmount > 0 THEN BalanceSet(bal, creditor, debtor, newAmount)
        ELSE IF newAmount < 0 THEN
            BalanceSet(BalanceDelete(bal, creditor, debtor),
                       debtor, creditor, Abs(newAmount))
        ELSE BalanceDelete(bal, creditor, debtor)
    ELSE IF BalanceHas(bal, debtor, creditor) THEN
        BalanceSet(bal, debtor, creditor,
                   NumberAdd(BalanceGet(bal, debtor, creditor).amount, split.amount))
    ELSE BalanceSet(bal, debtor, creditor, split.amount)

\* the Map after the forEach over the list of unpaid splits
RECURSIVE AccumulateBalances(_, _)
AccumulateBalances(bal, splits) ==
    IF splits = <<>> THEN bal
    ELSE AccumulateBalances(ApplySplit(bal, Head(splits)), Tail(splits))

\* Array.from(balances.values()).filter(balance => balance.amount > 0)
BalanceArray(splits) ==
    SelectSeq(AccumulateBalances(<<>>, splits), LAMBDA b : b.amount > 0)

\* a netted edge read as an unpaid split: the debtor owes the creditor
EdgesAsSplits(edges) ==
    [i \in 1..Len(edges) |->
        [userId |-> edges[i].from, paidById |-> edges[i].to, amount |-> edges[i].amount]]

\* the ids of a set of rows in ascending order, as findMany returns them
RECURSIVE IdsInOrder(_)
IdsInOrder(rowIds) ==
    IF rowIds = {} THEN <<>>
    ELSE LET first == CHOOSE x \in rowIds :
                 \A y \in rowIds : x[1] < y[1] \/ (x[1] = y[1] /\ x[2] <= y[2])
         IN  <<first>> \o IdsInOrder(rowIds \ {first})

\* db.expenseSplit.findMany({ where: { splitExpense: { groupId }, isPaid: false } })
\* of getGroupBalances over the tables `splits` and `expenses`, each row with
\* the payer of its expense
UnsettledSplits(splits, expenses) ==
    LET rowIds == IdsInOrder({sp.id : sp \in {x \in splits : ~x.isPaid}})
        row(id) == CHOOSE sp \in splits : sp.id = id
        payer(sp) == (CHOOSE e \in expenses : e.id = sp.splitExpenseId).paidById
    IN  [i \in 1..Len(rowIds) |->
            [userId |-> row(rowIds[i]).userId,
             paidById |-> payer(row(rowIds[i])),
             amount |-> row(rowIds[i]).amount]]

\* the `balances` of the result of getGroupBalances
GroupBalances(splits, expenses) == BalanceArray(UnsettledSplits(splits, expenses))

\* The Map `userNetBalances` is a list of [userId, netBalance] in insertion order.
NetBalanceStart(net, userId) ==
    IF \E i \in 1..Len(net) : net[i].userId = userId THEN net
    ELSE Append(net, [userId |-> userId, netBalance |-> 0])

NetBalanceIndex(net, userId) == CHOOSE i \in 1..Len(net) : net[i].userId = userId

\* one pass of balanceArray.forEach(balance => ...): the debtor's netBalance
\* goes down by the amount, the creditor's goes up
ApplyBalance(net, balance) ==
    LET withFrom == NetBalanceStart(net, balance.from)
        debited == [withFrom EXCEPT ![NetBalanceIndex(withFrom, balance.from)].netBalance =
                        NumberSub(@, balance.amount)]
        withTo == NetBalanceStart(debited, balance.to)
    IN  [withTo EXCEPT ![NetBalanceIndex(withTo, balance.to)].netBalance =
            NumberAdd(@, balance.amount)]

RECURSIVE AccumulateNetBalances(_, _)
AccumulateNetBalances(net, edges) ==
    IF edges = <<>> THEN net
    ELSE AccumulateNetBalances(ApplyBalance(net, Head(edges)), Tail(edges))

\* Array.from(userNetBalances.values())
UserNetBalances(edges) == AccumulateNetBalances(<<>>, edges)

\* balanceArray.reduce((sum, balance) => sum + balance.amount, 0)
RECURSIVE ReduceAmounts(_, _)
ReduceAmounts(sum, edges) ==
    IF edges = <<>> THEN sum
    ELSE ReduceAmounts(NumberAdd(sum, Head(edges).amount), Tail(edges))

TotalUnsettledAmount(edges) == ReduceAmounts(0, edges)

\* the body of the 200 answer of getGroupBalances for the balanceArray `edges`
BalancesResult(edges) ==
    [Response("getGroupBalances", 200, "") EXCEPT
        !.userNetBalances = UserNetBalances(edges),
        !.totalUnsettledAmount = TotalUnsettledAmount(edges)]

\* GET /api/v1/groups/:groupId/balances
getGroupBalances(caller) ==
    LET op == "getGroupBalances" IN
    /\ UNCHANGED <<now, dbVars, splitGroup, calls>>
    /\ IF caller \notin groupMembers THEN
           /\ res' = Response(op, 404, "Group not found or you're not a member")
           /\ UNCHANGED netVars
       ELSE
           /\ unpaidSplits' = UnsettledSplits(expenseSplits, splitExpenses)
           /\ balances' = GroupBalances(expenseSplits, splitExpenses)
           /\ res' = BalancesResult(balances')

(* --------------------------- group summary ----------------------------- *)

\* The Map `memberSummary` is a list of [userId, totalOwed, totalPaid,
\* netBalance] in insertion order.

SummaryHas(summary, userId) == \E i \in 1..Len(summary) : summary[i].userId = userId

SummaryIndex(summary, userId) == CHOOSE i \in 1..Len(summary) : summary[i].userId = userId

\* one pass of expense.expenseSplits.forEach(split => ...) in getGroupSummary
SummaryAdd(summary, split, expense) ==
    LET started == IF SummaryHas(summary, split.userId) THEN summary
                   ELSE Append(summary, [userId |-> split.userId, totalOwed |-> 0,
                                         totalPaid |-> 0, netBalance |-> 0])
        i == SummaryIndex(started, split.userId)
        totalOwed == started[i].totalOwed + split.amount
        totalPaid == IF expense.paidById = split.userId
                     THEN started[i].totalPaid + expense.amount
                     ELSE started[i].totalPaid
    IN  [started EXCEPT ![i] = [userId |-> split.userId, totalOwed |-> totalOwed,
                                totalPaid |-> totalPaid,
                                netBalance |-> totalPaid - totalOwed]]

\* expenses.forEach(expense => expense.expenseSplits.forEach(...)) over the
\* splits listed by `splitIds`, expense by expense
RECURSIVE SummaryFold(_, _)
SummaryFold(summary, splitIds) ==
    IF splitIds = <<>> THEN summary
    ELSE LET split == CHOOSE sp \in expenseSplits : sp.id = Head(splitIds)
             expense == CHOOSE e \in splitExpenses : e.id = split.splitExpenseId
         IN  SummaryFold(SummaryAdd(summary, split, expense), Tail(splitIds))

\* Array.from(memberSummary.values())
MemberSummary == SummaryFold(<<>>, IdsInOrder({sp.id : sp \in expenseSplits}))

\* GET /api/v1/groups/:groupId/summary
getGroupSummary(caller) ==
    LET op == "getGroupSummary" IN
    /\ UNCHANGED <<now, dbVars, netVars, splitGroup, calls>>
    /\ IF caller \notin groupMembers THEN
           res' = Response(op, 404, "Group not found or you're not a member")
       ELSE
           res' = [Response(op, 200, "") EXCEPT !.summary = MemberSummary]

(* ------------- SpecNet: the accumulation over any list ----------------- *)

\* an unpaid split joined with the payer of its expense
NetSplits == [userId : Users, paidById : Users, amount : 0..MaxNetAmount]

InitNet == Init

\* getGroupBalances over a list of unpaid splits one split longer
NextNet ==
    /\ Len(unpaidSplits) < MaxUnpaidSplits
    /\ \E split \in NetSplits :
        /\ unpaidSplits' = Append(unpaidSplits, split)
        /\ balances' = BalanceArray(unpaidSplits')
        /\ res' = BalancesResult(balances')
    /\ UNCHANGED <<now, dbVars, splitGroup, calls>>

SpecNet == InitNet /\ [][NextNet]_vars

\* the total that `from` owes `to` over a list of unpaid splits
Owes(splits, from, to) ==
    SumSeq([i \in 1..Len(splits) |->
        IF splits[i].userId = from /\ splits[i].paidById = to
        THEN splits[i].amount ELSE 0])

EdgesBetween(edges, from, to) ==
    {i \in 1..Len(edges) : edges[i].from = from /\ edges[i].to = to}

\* C5: for each pair of users the balances hold one edge from A to B of the net
\* amount when A owes B more than B owes A, and no edge from A to B otherwise;
\* splits whose owner is the payer contribute nothing
C5_NettedEdgePerPair ==
    \A a \in Users, b \in Users :
        LET net == Owes(unpaidSplits, a, b) - Owes(unpaidSplits, b, a) IN
        IF a # b /\ net > 0
        THEN /\ Cardinality(EdgesBetween(balances, a, b)) = 1
             /\ \A i \in EdgesBetween(balances, a, b) : balances[i].amount = net
        ELSE EdgesBetween(balances, a, b) = {}

\* C6: the accumulation applied to its own result returns that result
C6_NettingIdempotent == BalanceArray(EdgesAsSplits(balances)) = balances

\* a netted result of two edges, one of them the rest of a flipped debt
C6_Witness ==
    /\ Len(balances) = 2
    /\ \E a \in Users, b \in Users :
        /\ Owes(unpaidSplits, b, a) > 0
        /\ Owes(unpaidSplits, a, b) > Owes(unpaidSplits, b, a)

(* ----------------------- claims on the ledger -------------------------- *)

\* C4: in every state the amounts of the splits of an expense sum to the
\* amount of the expense
C4_SharesSumToAmount ==
    \A e \in splitExpenses : SumAmount(SplitsOf(e.id)) = e.amount

(* ---------------------- claims on settlements -------------------------- *)

SettlementExpired == "Cannot update settlement after 24 hours"
SettlementDeleteExpired == "Cannot delete settlement after 24 hours"

\* updateSettlement and deleteSettlement of the creator on a settlement of age
\* `now - settledAt`: refused with the Expired error and no change once the age
\* is above `lastAge`, carried out otherwise
GraceWindowRule(lastAge) ==
    LET expired(age) == age > lastAge IN
    \A caller \in Users, settlementId \in 1..MaxSettlements :
        \A st \in settlements :
            (st.id = settlementId /\ st.fromUserId = caller) =>
                /\ \A body \in UpdateSettlementBodies :
                      (updateSettlement(caller, settlementId, body)
                       /\ (body.amount = ABSENT \/ body.amount >= 1))
                      => IF expired(now - st.settledAt)
                         THEN /\ res'.status = 400
                              /\ res'.error = SettlementExpired
                              /\ UNCHANGED <<settlements, expenseSplits>>
                         ELSE res'.status = 200
                /\ deleteSettlement(caller, settlementId)
                      => IF expired(now - st.settledAt)
                         THEN /\ res'.status = 400
                              /\ res'.error = SettlementDeleteExpired
                              /\ UNCHANGED <<settlements, expenseSplits>>
                         ELSE res'.status = 200 /\ st \notin settlements'

\* C7 as stated: the creator's update and delete succeed only while
\* now - settledAt < 24h, and fail with Expired, changing nothing, from
\* now - settledAt = 24h on
C7_ExpiredFromWindowOn ==
    [][GraceWindowRule(GraceWindow - 1)]_vars

\* C7 amended: the creator's update and delete succeed while
\* now - settledAt <= 24h, and fail with Expired, changing nothing, once
\* now - settledAt > 24h
C7_ExpiredAfterWindow ==
    [][GraceWindowRule(GraceWindow)]_vars

\* an update one instant after the window was refused as expired
C7_Witness ==
    /\ res.op = "updateSettlement"
    /\ res.error = SettlementExpired
    /\ \E st \in settlements : now - st.settledAt = GraceWindow + 1

\* what is left unpaid of a split
UnpaidAmount(split) == IF split.isPaid THEN 0 ELSE split.amount

\* a createSettlement request that passes every check before the one on the amount
ReachesAmountCheck(caller, body) ==
    /\ body.amount >= 1
    /\ UserExists(body.toUserId)
    /\ body.toUserId # caller
    /\ AreFriends(caller, body.toUserId)
    /\ body.splitExpenseId # ABSENT
    /\ AccessibleExpense(body.splitExpenseId, caller, body.toUserId) # {}

\* C8: a linked createSettlement whose amount exceeds what is left unpaid of the
\* caller's split on the expense fails with InvalidAmount, creates no settlement
\* and changes no split
C8_ExcessRejected ==
    [][\A caller \in Users, body \in CreateSettlementBodies, delay \in 0..MaxDelay :
          (/\ createSettlement(caller, body, delay)
           /\ ReachesAmountCheck(caller, body)
           /\ UserSplits(body.splitExpenseId, caller) # {}
           /\ body.amount > UnpaidAmount(UserSplit(body.splitExpenseId, caller)))
          => (/\ res'.error = "Settlement amount cannot exceed what you owe"
              /\ UNCHANGED <<settlements, expenseSplits>>)]_vars

\* C9: a linked createSettlement of a caller who has no split on the expense
\* fails and creates no settlement
C9_ShareRequired ==
    [][\A caller \in Users, body \in CreateSettlementBodies, delay \in 0..MaxDelay :
          (/\ createSettlement(caller, body, delay)
           /\ body.splitExpenseId # ABSENT
           /\ UserSplits(body.splitExpenseId, caller) = {})
          => (res'.status # 201 /\ UNCHANGED settlements)]_vars

\* C10: deleteSettlement by the creator, inside the window and right after the
\* createSettlement that marked splits paid, leaves each of those splits unpaid
\* with no settledAt
C10_DeleteRestoresShare ==
    [][\A caller \in Users, settlementId \in 1..MaxSettlements :
          (/\ deleteSettlement(caller, settlementId)
           /\ res.op = "createSettlement"
           /\ res.status = 201
           /\ settlementId = ids.settlement
           /\ res'.status = 200)
          => \A sp \in expenseSplits' :
                 sp.id \in res.marked => (~sp.isPaid /\ sp.settledAt = NULL)]_vars

(* -------- SpecRace: handlers interleaved at their database calls ------- *)

\* A handler awaits each database call, so another handler's calls can run
\* between two of its own.  Each step below is one database call together with
\* the synchronous code that follows it; a handler serves one request.

\* the handler has answered
Answered(call, status) == [call EXCEPT !.pc = "done", !.status = status]

\* the handler has thrown an AppError before its first write
Refused(op, status) == [NoCall EXCEPT !.op = op, !.pc = "done", !.status = status]

\* createSettlement up to its last read: body validation, the recipient, the
\* friendship and the linked expense with the amount check.  `saw` keeps the
\* caller's unpaid splits that the read found and the amount covers.
settlementCheck(p, caller, body) ==
    LET op == "createSettlement"
        linked == body.splitExpenseId # ABSENT
        call == [NoCall EXCEPT !.op = op, !.caller = caller, !.body = body]
        rejected ==
            IF body.amount < 1 THEN Response(op, 400, "Validation failed")
            ELSE IF ~UserExists(body.toUserId) THEN
                Response(op, 404, "Recipient user not found")
            ELSE IF body.toUserId = caller THEN
                Response(op, 400, "Cannot create settlement with yourself")
            ELSE IF ~AreFriends(caller, body.toUserId) THEN
                Response(op, 400, "You can only settle with friends")
            ELSE IF linked /\ AccessibleExpense(body.splitExpenseId, caller, body.toUserId) = {} THEN
                Response(op, 404, "Split expense not found or you don't have access")
            ELSE IF linked /\ ExceedsOwed(body.splitExpenseId, caller, body.amount) THEN
                Response(op, 400, "Settlement amount cannot exceed what you owe")
            ELSE Response(op, 0, "")
    IN
    /\ calls[p].pc = "idle"
    /\ UNCHANGED <<now, dbVars, netVars, splitGroup>>
    /\ IF rejected.status # 0 THEN
           /\ res' = rejected
           /\ calls' = [calls EXCEPT ![p] = Refused(op, rejected.status)]
       ELSE
           /\ UNCHANGED res
           /\ calls' = [calls EXCEPT ![p] =
                  [call EXCEPT !.pc = "create",
                               !.saw = IF linked
                                       THEN {sp.id : sp \in CoveredSplits(body.splitExpenseId,
                                                                          caller, body.amount)}
                                       ELSE {}]]

\* db.settlement.create of createSettlement
settlementInsert(p) ==
    LET call == calls[p]
        settlementId == ids.settlement + 1
    IN
    /\ call.op = "createSettlement" /\ call.pc = "create"
    /\ UNCHANGED <<now, groupMembers, friendships, friendRequests, splitExpenses, expenseSplits,
                   netVars, splitGroup>>
    /\ settlements' = settlements \cup
           {[id |-> settlementId, fromUserId |-> call.caller, toUserId |-> call.body.toUserId,
             amount |-> call.body.amount, splitExpenseId |-> call.body.splitExpenseId,
             settledAt |-> DefaultSettlementSettledAt(now)]}
    /\ ids' = [ids EXCEPT !.settlement = settlementId]
    /\ IF call.body.splitExpenseId # ABSENT THEN
           /\ calls' = [calls EXCEPT ![p] = [call EXCEPT !.pc = "mark",
                                                         !.settlementId = settlementId]]
           /\ UNCHANGED res
       ELSE
           /\ calls' = [calls EXCEPT ![p] =
                  Answered([call EXCEPT !.settlementId = settlementId], 201)]
           /\ res' = Response(call.op, 201, "")

\* db.expenseSplit.updateMany of createSettlement, and the 201 answer
settlementMark(p) ==
    LET call == calls[p]
        covered == CoveredSplits(call.body.splitExpenseId, call.caller, call.body.amount)
    IN
    /\ call.op = "createSettlement" /\ call.pc = "mark"
    /\ UNCHANGED <<now, groupMembers, friendships, friendRequests, splitExpenses, settlements, ids,
                   netVars, splitGroup>>
    /\ expenseSplits' =
           {IF sp \in covered THEN [sp EXCEPT !.isPaid = TRUE, !.settledAt = now]
            ELSE sp : sp \in expenseSplits}
    /\ calls' = [calls EXCEPT ![p] = Answered(call, 201)]
    /\ res' = [Response(call.op, 201, "") EXCEPT !.marked = {sp.id : sp \in covered}]

\* the updateMany of createSettlement rejects (the database call fails): the
\* error handler answers, the inserted settlement stays
settlementMarkFails(p) ==
    LET call == calls[p] IN
    /\ call.op = "createSettlement" /\ call.pc = "mark"
    /\ UNCHANGED <<now, dbVars, netVars, splitGroup>>
    /\ calls' = [calls EXCEPT ![p] = Answered(call, 500)]
    /\ res' = Response(call.op, 500, "Internal server error")

\* markExpenseSplitsPaid up to its read: body validation, findMany and the
\* length check.  `saw` keeps the unpaid splits among those the read found.
markPaidFind(p, caller, expenseSplitIds) ==
    LET op == "markExpenseSplitsPaid"
        call == [NoCall EXCEPT !.op = op, !.caller = caller, !.body = expenseSplitIds]
        found == {sp \in expenseSplits :
                     sp.id \in Range(expenseSplitIds) /\ OwnOrPayer(sp, caller)}
    IN
    /\ calls[p].pc = "idle"
    /\ UNCHANGED <<now, dbVars, netVars, splitGroup>>
    /\ IF Len(expenseSplitIds) < 1 THEN
           /\ res' = Response(op, 400, "Validation failed")
           /\ calls' = [calls EXCEPT ![p] = Refused(op, 400)]
       ELSE IF Cardinality(found) # Len(expenseSplitIds) THEN
           /\ res' = Response(op, 404, "Some expense splits not found or you don't have permission")
           /\ calls' = [calls EXCEPT ![p] = Refused(op, 404)]
       ELSE
           /\ UNCHANGED res
           /\ calls' = [calls EXCEPT ![p] =
                  [call EXCEPT !.pc = "update",
                               !.saw = {sp.id : sp \in {x \in found : ~x.isPaid}}]]

\* db.expenseSplit.updateMany of markExpenseSplitsPaid, and the 200 answer
markPaidUpdate(p) ==
    LET call == calls[p]
        listed == {sp \in expenseSplits : sp.id \in Range(call.body)}
    IN
    /\ call.op = "markExpenseSplitsPaid" /\ call.pc = "update"
    /\ UNCHANGED <<now, groupMembers, friendships, friendRequests, splitExpenses, settlements, ids,
                   netVars, splitGroup>>
    /\ expenseSplits' =
           {IF sp \in listed THEN [sp EXCEPT !.isPaid = TRUE, !.settledAt = now]
            ELSE sp : sp \in expenseSplits}
    /\ calls' = [calls EXCEPT ![p] = Answered(call, 200)]
    /\ res' = [Response(call.op, 200, "") EXCEPT !.marked = {sp.id : sp \in listed}]

\* settlement requests of the race: well-formed, to any user
RaceSettlementBodies ==
    [toUserId : Users, amount : 1..MaxAmount,
     splitExpenseId : {ABSENT} \cup (1..MaxExpenses)]

NextRace ==
    \/ Tick
    \/ /\ \A p \in Procs : calls[p].pc = "idle"
       /\ CreateSplitExpenseRequest
    \/ \E p \in Procs, caller \in Users, body \in RaceSettlementBodies :
           settlementCheck(p, caller, body)
    \/ \E p \in Procs : settlementInsert(p)
    \/ \E p \in Procs : settlementMark(p)
    \/ \E p \in Procs : settlementMarkFails(p)
    \/ \E p \in Procs, caller \in Users, expenseSplitIds \in SeqUpTo(SplitIds, MaxMarkIds) :
           markPaidFind(p, caller, expenseSplitIds)
    \/ \E p \in Procs : markPaidUpdate(p)

SpecRace == Init /\ [][NextRace]_vars

\* the handler answered with success
Succeeded(call) == call.pc = "done" /\ call.status \in {200, 201}

\* C11: a createSettlement served concurrently with another createSettlement
\* or with a markPaid, both having found the same split unpaid, do not both
\* succeed
C11_ShareSettledOnce ==
    \A p \in Procs, q \in Procs :
        (/\ p # q
         /\ calls[p].op = "createSettlement"
         /\ Succeeded(calls[p])
         /\ Succeeded(calls[q]))
            => calls[p].saw \cap calls[q].saw = {}

(* ------------------- claims on marking splits paid --------------------- *)

\* the id names a split that the caller owns or whose expense the caller paid
Authorised(splitId, caller) ==
    \E sp \in expenseSplits : sp.id = splitId /\ OwnOrPayer(sp, caller)

\* C12: a markPaid over a list whose every id is a split the caller owns or
\* whose expense the caller paid leaves every listed split paid; with any id
\* missing or not authorised it fails and modifies no split
C12_MarkPaidAllOrNothing ==
    [][\A caller \in Users, expenseSplitIds \in SeqUpTo(SplitIds, MaxMarkIds) :
          (markExpenseSplitsPaid(caller, expenseSplitIds) /\ Len(expenseSplitIds) >= 1)
          => IF \A i \in 1..Len(expenseSplitIds) : Authorised(expenseSplitIds[i], caller)
             THEN /\ res'.status = 200
                  /\ \A sp \in expenseSplits' :
                         sp.id \in Range(expenseSplitIds) => sp.isPaid
             ELSE /\ res'.status # 200
                  /\ UNCHANGED expenseSplits]_vars

\* the paid flag and the settledAt of the split are what they were
PaidStateKept(splitId) ==
    \A sp \in expenseSplits : sp.id = splitId =>
        \E after \in expenseSplits' :
            /\ after.id = splitId
            /\ after.isPaid = sp.isPaid
            /\ after.settledAt = sp.settledAt

\* the split was marked paid at some instant
PaidAt(splitId) ==
    \E sp \in expenseSplits : sp.id = splitId /\ sp.isPaid /\ sp.settledAt # NULL

\* C13: a successful markPaid, or updateExpenseSplit with isPaid = true, leaves
\* the paid flag and the settledAt of a split that was already marked paid as
\* they were
C13_MarkingPaidAgainIsNoOp ==
    [][/\ \A caller \in Users, expenseSplitIds \in SeqUpTo(SplitIds, MaxMarkIds) :
            (markExpenseSplitsPaid(caller, expenseSplitIds) /\ res'.status = 200)
            => \A splitId \in Range(expenseSplitIds) :
                   PaidAt(splitId) => PaidStateKept(splitId)
       /\ \A caller \in Users, splitId \in SplitIds, body \in UpdateExpenseSplitBodies :
            (/\ updateExpenseSplit(caller, splitId, body)
             /\ body.isPaid
             /\ res'.status = 200)
            => (PaidAt(splitId) => PaidStateKept(splitId))]_vars

\* C14: in every state each split has a settledAt exactly when it is paid
C14_SettledAtIffPaid ==
    \A sp \in expenseSplits : sp.isPaid <=> sp.settledAt # NULL

(* ------------------ claims on changing an expense ---------------------- *)

\* the caller paid the expense and no split of another user on it is paid
MayChangeExpense(caller, expenseId) ==
    /\ \E e \in splitExpenses : e.id = expenseId /\ e.paidById = caller
    /\ \A sp \in expenseSplits :
           (sp.splitExpenseId = expenseId /\ sp.userId # caller) => ~sp.isPaid

\* C15: updateSplitExpense and deleteSplitExpense succeed only for the payer of
\* the expense while no split of another user on it is paid; otherwise they
\* fail and leave the expense and its splits unchanged
C15_ChangeOnlyByPayerBeforePayments ==
    [][\A caller \in Users, expenseId \in 1..MaxExpenses :
          /\ \A body \in UpdateSplitExpenseBodies :
                (updateSplitExpense(caller, expenseId, body)
                 /\ ~MayChangeExpense(caller, expenseId))
                => (res'.status # 200 /\ UNCHANGED <<splitExpenses, expenseSplits>>)
          /\ (deleteSplitExpense(caller, expenseId)
              /\ ~MayChangeExpense(caller, expenseId))
                => (res'.status # 200 /\ UNCHANGED <<splitExpenses, expenseSplits>>)]_vars

\* a delete by the payer was refused because another user's split is paid, and
\* an expense with such a split is still there
C15_Witness ==
    /\ res.op = "deleteSplitExpense"
    /\ res.error = "Cannot delete expense after payments have been made"
    /\ \E e \in splitExpenses : PaidSplits(e.id, e.paidById) # {}

(* ------------- SpecGroup: the group over a ledger of expenses ---------- *)

NextGroup ==
    \/ Tick
    \/ CreateSplitExpenseRequest
    \/ MarkExpenseSplitsPaidRequest
    \/ \E caller \in Users, splitId \in SplitIds :
           markExpenseSplitUnpaid(caller, splitId)
    \/ \E caller \in Users : deleteGroup(caller)
    \/ \E caller \in Users, userId \in Users : removeGroupMember(caller, userId)

SpecGroup == Init /\ [][NextGroup]_vars

\* some split of some expense of the group is unpaid
AnyUnpaid == \E sp \in expenseSplits : ~sp.isPaid

\* C16: deleteGroup is refused and leaves the group as it is whenever a split
\* of the group is unpaid or the caller is not the creator; by the creator of
\* an active group whose splits are all paid it soft-deletes the group
C16_DeleteGroupNeedsAllPaid ==
    [][\A caller \in Users :
          deleteGroup(caller) =>
              IF AnyUnpaid \/ caller # splitGroup.creatorId
              THEN res'.status # 200 /\ UNCHANGED splitGroup
              ELSE splitGroup.isActive => (res'.status = 200 /\ ~splitGroup'.isActive)]_vars

\* the creator's deleteGroup was refused over an unpaid split; the group is active
C16_Witness ==
    /\ res.op = "deleteGroup"
    /\ res.status = 400
    /\ splitGroup.isActive
    /\ \E sp \in expenseSplits : ~sp.isPaid /\ sp.userId # splitGroup.creatorId

\* an unpaid split is linked to the member: the member owes it, or another
\* user owes it on an expense the member paid
UnpaidLinkedTo(userId) ==
    \E sp \in expenseSplits :
        /\ ~sp.isPaid
        /\ \/ sp.userId = userId
           \/ PayerOf(sp) = userId

\* C17: removeGroupMember is refused and leaves the membership active whenever
\* an unpaid split is linked to the member
C17_RemoveMemberNeedsAllPaid ==
    [][\A caller \in Users, userId \in Users :
          (removeGroupMember(caller, userId) /\ userId \in groupMembers
           /\ UnpaidLinkedTo(userId))
          => (res'.status # 200 /\ userId \in groupMembers')]_vars

(* --------------- claims on who may change a settlement ----------------- *)

\* the settlement exists and the caller did not create it
NotCreator(settlementId, caller) ==
    \E st \in settlements : st.id = settlementId /\ st.fromUserId # caller

\* C18: updateSettlement and deleteSettlement by anyone but the creator of the
\* settlement, its recipient included, fail and leave the settlement and every
\* split unchanged
C18_OnlyCreatorChangesSettlement ==
    [][\A caller \in Users, settlementId \in 1..MaxSettlements :
          /\ \A body \in UpdateSettlementBodies :
                (updateSettlement(caller, settlementId, body)
                 /\ NotCreator(settlementId, caller))
                => (res'.status # 200 /\ UNCHANGED <<settlements, expenseSplits>>)
          /\ (deleteSettlement(caller, settlementId) /\ NotCreator(settlementId, caller))
                => (res'.status # 200 /\ UNCHANGED <<settlements, expenseSplits>>)]_vars

\* a delete of the settlement that exists was answered 404: its caller was
\* not the creator
C18_Witness ==
    /\ res.op = "deleteSettlement"
    /\ res.status = 404
    /\ \E st \in settlements : st.id \in 1..MaxSettlements

(* ---------------- claims on settlements and balances ------------------- *)

\* the amount of the edge from -> to among the netted edges, 0 without one
NettedDebt(edges, from, to) ==
    IF EdgesBetween(edges, from, to) = {} THEN 0
    ELSE edges[CHOOSE i \in EdgesBetween(edges, from, to) : TRUE].amount

\* C19: a successful createSettlement of amount x from A to B, linked to an
\* expense that B paid and on which A has an unpaid split of at least x, lowers
\* the netted debt A -> B that getGroupBalances reports by x
C19_SettlementLowersDebt ==
    [][\A caller \in Users, body \in CreateSettlementBodies, delay \in 0..MaxDelay :
          (/\ createSettlement(caller, body, delay)
           /\ res'.status = 201
           /\ body.splitExpenseId # ABSENT
           /\ \E e \in splitExpenses : e.id = body.splitExpenseId /\ e.paidById = body.toUserId
           /\ UserSplits(body.splitExpenseId, caller) # {}
           /\ body.amount <= UnpaidAmount(UserSplit(body.splitExpenseId, caller)))
          => NettedDebt(GroupBalances(expenseSplits', splitExpenses'), caller, body.toUserId)
               = NettedDebt(GroupBalances(expenseSplits, splitExpenses), caller, body.toUserId)
                 - body.amount]_vars

(* ------------- SpecReport: the reports over a ledger ------------------- *)

NextReport ==
    \/ CreateSplitExpenseRequest
    \/ MarkExpenseSplitsPaidRequest
    \/ \E caller \in Users : getGroupSummary(caller)
    \/ \E caller \in Users : getGroupBalances(caller)

SpecReport == Init /\ [][NextReport]_vars

\* the users who paid an expense of the group that others share and have no
\* split on any
PayerOnly ==
    {u \in Users :
        /\ \E e \in splitExpenses : e.paidById = u /\ SplitsOf(e.id) # {}
        /\ \A sp \in expenseSplits : sp.userId # u}

\* C20: getGroupSummary has an entry for each payer-only user whose totalPaid is
\* the sum of the amounts of the expenses that user paid, and getGroupBalances
\* has an edge to that user from the owner of each unpaid split on them
C20_PayerOnlyReported ==
    [][\A caller \in Users :
          /\ (getGroupSummary(caller) /\ res'.status = 200)
             => \A u \in PayerOnly :
                    \E i \in 1..Len(res'.summary) :
                        /\ res'.summary[i].userId = u
                        /\ res'.summary[i].totalPaid =
                               SumAmount({e \in splitExpenses : e.paidById = u})
          /\ (getGroupBalances(caller) /\ res'.status = 200)
             => \A u \in PayerOnly : \A sp \in expenseSplits :
                    (~sp.isPaid /\ sp.amount > 0 /\ PayerOf(sp) = u)
                    => EdgesBetween(balances', sp.userId, u) # {}]_vars

(* ----------------- claims on the participants of an expense ------------ *)

\* the list the request would allocate over: the active members under Equal,
\* the customSplits under Amount and Percentage
Participants(body) ==
    IF body.splitType = "Equal" THEN SetToSeq(groupMembers)
    ELSE IF body.hasCustomSplits THEN body.customSplits
    ELSE <<>>

\* C21: a well-formed createSplitExpense of a group member whose participant
\* list is empty fails and creates no expense and no split, under every policy
C21_NoParticipantsRejected ==
    [][\A caller \in groupMembers, body \in AllocBodies :
          (/\ createSplitExpense(caller, body)
           /\ CreateSplitExpenseValid(body)
           /\ Participants(body) = <<>>)
          => (res'.status # 201 /\ UNCHANGED <<splitExpenses, expenseSplits>>)]_vars

\* C22: no user has two splits on the same expense
C22_OneSharePerParticipant ==
    \A e \in splitExpenses :
        \A sp \in SplitsOf(e.id), other \in SplitsOf(e.id) :
            sp.userId = other.userId => sp = other

(* -------------- claims on the timestamps of a settlement --------------- *)

\* C23: after a successful createSettlement linked to an expense, every split
\* the call marked paid has the settledAt of the settlement it created
C23_ShareStampedWithSettlementTime ==
    [][\A caller \in Users, body \in CreateSettlementBodies, delay \in 0..MaxDelay :
          (/\ createSettlement(caller, body, delay)
           /\ res'.status = 201
           /\ body.splitExpenseId # ABSENT)
          => \A st \in settlements' \ settlements :
                 \A sp \in expenseSplits' :
                     sp.id \in res'.marked => sp.settledAt = st.settledAt]_vars

\* C24: a deleteSettlement that follows the createSettlement of its settlement
\* changes no split but those that createSettlement marked paid
C24_DeleteTouchesOnlyItsShares ==
    [][\A caller \in Users, settlementId \in 1..MaxSettlements :
          (/\ deleteSettlement(caller, settlementId)
           /\ res.op = "createSettlement"
           /\ res.status = 201
           /\ settlementId = ids.settlement)
          => \A sp \in expenseSplits :
                 sp.id \notin res.marked => sp \in expenseSplits']_vars

(* ------------------ claims on interleaved handlers --------------------- *)

\* C25: in no state that a concurrent request can read does a settlement linked
\* to an expense exist while a split it covers is still unpaid
C25_SettlementAtomicWithMark ==
    \A st \in settlements :
        st.splitExpenseId # ABSENT
            => CoveredSplits(st.splitExpenseId, st.fromUserId, st.amount) = {}


(* --------------------- claims on the group balances -------------------- *)

\* the lists of length n in another order: the bijections of 1..n
Reorderings(n) ==
    {f \in [1..n -> 1..n] : \A i \in 1..n, j \in 1..n : i # j => f[i] # f[j]}

Reordered(splits, order) == [i \in 1..Len(splits) |-> splits[order[i]]]

\* C26: the unpaid splits processed in any other order give the same set of
\* edges, the same net balance of every user and the same totalUnsettledAmount
C26_BalancesOrderIndependent ==
    \A order \in Reorderings(Len(unpaidSplits)) :
        LET edges == BalanceArray(Reordered(unpaidSplits, order)) IN
        /\ Range(edges) = Range(balances)
        /\ Range(UserNetBalances(edges)) = Range(res.userNetBalances)
        /\ TotalUnsettledAmount(edges) = res.totalUnsettledAmount

\* the exact sums of the amounts of the edges to and from a user
EdgesTo(edges, userId) ==
    SumSeq([i \in 1..Len(edges) |-> IF edges[i].to = userId THEN edges[i].amount ELSE 0])

EdgesFrom(edges, userId) ==
    SumSeq([i \in 1..Len(edges) |-> IF edges[i].from = userId THEN edges[i].amount ELSE 0])

\* C27: the netBalance of every reported user is the sum of the edges to the
\* user minus the sum of the edges from the user, and the netBalances of all
\* reported users add up to zero
C27_NetBalanceIsSumOfEdges ==
    /\ \A i \in 1..Len(res.userNetBalances) :
        LET userId == res.userNetBalances[i].userId IN
        res.userNetBalances[i].netBalance =
            EdgesTo(balances, userId) - EdgesFrom(balances, userId)
    /\ SumSeq([i \in 1..Len(res.userNetBalances) |-> res.userNetBalances[i].netBalance]) = 0


(* ---------------------- claims on the deleted group -------------------- *)

\* C28: a group that deleteGroup has soft-deleted has no unpaid split
C28_DeletedGroupHasNoUnpaidShare == ~splitGroup.isActive => ~AnyUnpaid


(* ------------------- claims on the settled amount ---------------------- *)

\* C29: a settlement linked to an expense is never larger than the split of
\* its creator on that expense
C29_SettlementWithinShare ==
    \A st \in settlements :
        st.splitExpenseId # ABSENT =>
            \A sp \in UserSplits(st.splitExpenseId, st.fromUserId) : st.amount <= sp.amount


(* ------------------ SpecFriend: friend requests ------------------------ *)

NextFriend ==
    \/ /\ ids.friendRequest < MaxFriendRequests
       /\ \E caller \in Users, userId \in Users \cup {NoUser} :
              sendFriendRequest(caller, userId)
    \/ \E caller \in Users, requestId \in 1..MaxFriendRequests :
           removeFriendRequest(caller, requestId)
    \/ \E caller \in Users, requestId \in 1..MaxFriendRequests :
           acceptFriendRequest(caller, requestId)
    \/ \E caller \in Users, requestId \in 1..MaxFriendRequests :
           rejectFriendRequest(caller, requestId)
    \/ \E caller \in Users, friendId \in Users : removeFriend(caller, friendId)

SpecFriend == Init /\ [][NextFriend]_vars

\* the request of that id was accepted or rejected before
Decided(requestId) ==
    \E r \in friendRequests : r.id = requestId /\ r.status \in {"Accepted", "Rejected"}

\* C30: acceptFriendRequest on a request that was accepted or rejected before
\* is refused and creates no friendship
C30_DecidedRequestIsTerminal ==
    [][\A caller \in Users, requestId \in 1..MaxFriendRequests :
          (acceptFriendRequest(caller, requestId) /\ Decided(requestId))
              => (res'.status # 200 /\ UNCHANGED <<friendships, friendRequests>>)]_vars

====
